---- MODULE Spec2Model ----
(***************************************************************************)
(* The story-generation pipeline of pictotale-be: StoryService             *)
(* (src/services/storyService.js), the text helpers of AIService           *)
(* (src/services/aiService.js) and the Firestore document they write       *)
(* through StoryRepository (src/repositories/storyRepository.js).          *)
(*                                                                         *)
(* A text is a sequence of one-character strings, so that trimming,        *)
(* splitting, substring search and truncation are computed as the          *)
(* JavaScript code computes them.                                          *)
(***************************************************************************)
EXTENDS Integers, Sequences, FiniteSets, TLC

(***************************************************************************)
(* Characters and JavaScript string primitives                             *)
(***************************************************************************)
\* the characters matched by \s that occur in the modelled texts
WhiteSpace == {" ", "\n", "\t"}

\* the character class [.!?]
Terminators == {".", "!", "?"}

UpperCase == <<"A", "B", "C", "D", "E", "F", "G", "H", "I", "J", "K", "L", "M", "N", "O", "P", "Q", "R", "S", "T", "U", "V", "W", "X", "Y", "Z">>

LowerCase == <<"a", "b", "c", "d", "e", "f", "g", "h", "i", "j", "k", "l", "m", "n", "o", "p", "q", "r", "s", "t", "u", "v", "w", "x", "y", "z">>

\* the character class [A-Z]
IsUpper(c) == \E i \in 1..Len(UpperCase) : UpperCase[i] = c

toLowerChar(c) ==
  IF IsUpper(c) THEN LowerCase[CHOOSE i \in 1..Len(UpperCase) : UpperCase[i] = c] ELSE c

\* String.prototype.toLowerCase
toLowerCase(t) == [i \in 1..Len(t) |-> toLowerChar(t[i])]

MaxOf(S) == CHOOSE x \in S : \A y \in S : y <= x

MinOf(S) == CHOOSE x \in S : \A y \in S : x <= y

RECURSIVE trimStart(_)
trimStart(t) ==
  IF t # <<>> /\ Head(t) \in WhiteSpace THEN trimStart(Tail(t)) ELSE t

RECURSIVE trimEnd(_)
trimEnd(t) ==
  IF t # <<>> /\ t[Len(t)] \in WhiteSpace THEN trimEnd(SubSeq(t, 1, Len(t) - 1)) ELSE t

\* String.prototype.trim
trim(t) == trimEnd(trimStart(t))

\* String.prototype.includes
includes(t, term) ==
  \E i \in 1..(Len(t) - Len(term) + 1) : SubSeq(t, i, i + Len(term) - 1) = term

\* String.prototype.lastIndexOf for one character: a 0-based index, or -1
lastIndexOf(t, c) ==
  LET S == {i \in 1..Len(t) : t[i] = c}
  IN  IF S = {} THEN -1 ELSE MaxOf(S) - 1

RECURSIVE SplitFrom(_, _, _)
\* the words of t[lo..hi], a stretch of t between two whitespace characters
\* or ends of t: the stretch itself when it has no whitespace, otherwise
\* the words before and after the whitespace character nearest its middle
SplitFrom(t, lo, hi) ==
  LET spaces == {j \in lo..hi : t[j] \in WhiteSpace}
      middle == (lo + hi) \div 2
      before == {j \in spaces : j <= middle}
      m == IF before # {} THEN MaxOf(before) ELSE MinOf(spaces)
  IN  IF lo > hi THEN <<>>
      ELSE IF spaces = {} THEN <<SubSeq(t, lo, hi)>>
      ELSE SplitFrom(t, lo, m - 1) \o SplitFrom(t, m + 1, hi)

\* text.split(/\s+/).filter(word => word.length > 0)
splitWords(t) == SplitFrom(t, 1, Len(t))

\* the number of maximal runs of characters of class S in t
CountRuns(t, S) ==
  Cardinality({i \in 1..Len(t) : t[i] \in S /\ (i = 1 \/ t[i - 1] \notin S)})

\* text.split(/\s+/).length and text.split(/[.!?]+/).length: the pieces are
\* not filtered, so leading and trailing empty pieces count
splitLength(t, S) == CountRuns(t, S) + 1

RECURSIVE joinSpace(_)
\* words.join(' ')
joinSpace(ws) ==
  IF ws = <<>> THEN <<>>
  ELSE IF Len(ws) = 1 THEN ws[1]
  ELSE LET h == Len(ws) \div 2
       IN  joinSpace(SubSeq(ws, 1, h)) \o <<" ">> \o joinSpace(SubSeq(ws, h + 1, Len(ws)))

RECURSIVE countMatches(_, _, _)
\* (text.match(new RegExp(term, 'g')) || []).length: non-overlapping
\* matches, leftmost first
countMatches(t, term, i) ==
  LET hits == {j \in i..(Len(t) - Len(term) + 1) :
                 SubSeq(t, j, j + Len(term) - 1) = term}
  IN  IF hits = {} THEN 0
      ELSE 1 + countMatches(t, term, MinOf(hits) + Len(term))

(***************************************************************************)
(* AIService: word limit, expressions, content safety                      *)
(***************************************************************************)
maxStoryWords == 200

\* the literal limit passed to enforceWordLimit by generateStory
generateStoryWordLimit == 200

\* const maxWords = 50 in enhanceWithExpressions
enhanceMaxWords == 50

countWords(t) == Len(splitWords(trim(t)))

\* the lengths n below 2000 for which the double n * 0.7 is rounded below
\* the exact product 7n/10 (an integer there); for every other n the
\* comparison of an integer with n * 0.7 agrees with exact arithmetic
roundedBelow ==
  {90, 170, 180, 330, 340, 350, 360, 650, 660, 670, 680, 690, 700, 710, 720, 730, 1290, 1300, 1310, 1320, 1330, 1340, 1350, 1360, 1370, 1380, 1390, 1400, 1410, 1420, 1430, 1440, 1450, 1460}

\* k > n * 0.7 in IEEE double arithmetic, for integers k and 0 <= n < 2000
exceedsSeventyPercent(k, n) ==
  k * 10 > n * 7 \/ (k * 10 = n * 7 /\ n \in roundedBelow)

\* an enforceWordLimit that rebuilds a short text from its words
enforceWordLimit_rejoined(text, maxWords) ==
  LET words == splitWords(text)
      truncated == joinSpace(SubSeq(words, 1, maxWords))
      lastSentenceEnd == MaxOf({lastIndexOf(truncated, "."),
                                lastIndexOf(truncated, "!"),
                                lastIndexOf(truncated, "?")})
  IN  IF Len(words) <= maxWords THEN joinSpace(words)
      ELSE IF exceedsSeventyPercent(lastSentenceEnd, Len(truncated))
        THEN SubSeq(truncated, 1, lastSentenceEnd + 1)
      ELSE IF truncated # <<>> /\ truncated[Len(truncated)] \in Terminators
        THEN truncated
      ELSE truncated \o <<".">>

enforceWordLimit(text, maxWords) ==
  LET words == splitWords(text)
      truncated == joinSpace(SubSeq(words, 1, maxWords))
      lastSentenceEnd == MaxOf({lastIndexOf(truncated, "."),
                                lastIndexOf(truncated, "!"),
                                lastIndexOf(truncated, "?")})
  IN  IF Len(words) <= maxWords THEN text
      ELSE IF exceedsSeventyPercent(lastSentenceEnd, Len(truncated))
        THEN SubSeq(truncated, 1, lastSentenceEnd + 1)
      ELSE IF truncated # <<>> /\ truncated[Len(truncated)] \in Terminators
        THEN truncated
      ELSE truncated \o <<".">>

expressions == <<
    <<"w", "h", "o", "o", "s", "h">>,
    <<"s", "p", "l", "a", "s", "h">>,
    <<"b", "o", "o", "m">>,
    <<"p", "o", "p">>,
    <<"z", "o", "o", "m">>,
    <<"f", "l", "u", "t", "t", "e", "r">>,
    <<"s", "p", "a", "r", "k", "l", "e">>,
    <<"d", "i", "n", "g">>,
    <<"p", "u", "f", "f">>,
    <<"g", "i", "g", "g", "l", "e">>,
    <<"g", "a", "s", "p">>,
    <<"p", "i", "t", "t", "e", "r", "-", "p", "a", "t", "t", "e", "r">>,
    <<"h", "o", "o", "t">>,
    <<"s", "u", "r", "p", "r", "i", "s", "e">>,
    <<"o", "h", " ", "m", "y">>,
    <<"w", "o", "w">>,
    <<"y", "a", "y">>,
    <<"h", "o", "o", "r", "a", "y">>,
    <<"a", "m", "a", "z", "i", "n", "g">>,
    <<"u", "h", " ", "o", "h">>,
    <<"w", "o", "n", "d", "e", "r", "f", "u", "l">>,
    <<"g", "a", "s", "p">>,
    <<"!">> >>

RECURSIVE SumMatches(_, _, _)
SumMatches(t, exprs, k) ==
  IF k > Len(exprs) THEN 0
  ELSE countMatches(t, exprs[k], 1) + SumMatches(t, exprs, k + 1)

countExpressions(text) == SumMatches(toLowerCase(text), expressions, 1)

\* enhanced.replace(/\. ([A-Z])/g, '! $1')
replacePeriods(t) ==
  [i \in 1..Len(t) |->
     IF t[i] = "." /\ i + 2 <= Len(t) /\ t[i + 1] = " " /\ IsUpper(t[i + 2])
       THEN "!" ELSE t[i]]

wowTriggers == <<
    <<"f", "o", "u", "n", "d">>,
    <<"d", "i", "s", "c", "o", "v", "e", "r", "e", "d">>,
    <<"s", "a", "w">> >>

\* enhanced.replace(/found|discovered|saw/, '"Wow!" $&'): first match only
insertWow(t) ==
  LET hits == {i \in 1..Len(t) : \E k \in 1..Len(wowTriggers) :
                 i + Len(wowTriggers[k]) - 1 <= Len(t)
                 /\ SubSeq(t, i, i + Len(wowTriggers[k]) - 1) = wowTriggers[k]}
  IN  IF hits = {} THEN t
      ELSE LET p == MinOf(hits)
           IN  SubSeq(t, 1, p - 1) \o <<"\"", "W", "o", "w", "!", "\"", " ">> \o SubSeq(t, p, Len(t))

enhanceWithExpressions(story) ==
  LET replaced == replacePeriods(story)
      lower == toLowerCase(replaced)
      enhanced == IF ~includes(lower, <<"w", "o", "w">>) /\ ~includes(lower, <<"o", "h">>)
                    THEN insertWow(replaced) ELSE replaced
  IN  IF countExpressions(story) >= 3 THEN story
      ELSE IF countWords(enhanced) > enhanceMaxWords
        THEN enforceWordLimit(enhanced, enhanceMaxWords)
      ELSE enhanced

inappropriateWords == <<
    <<"s", "c", "a", "r", "y">>,
    <<"f", "r", "i", "g", "h", "t", "e", "n", "i", "n", "g">>,
    <<"t", "e", "r", "r", "i", "f", "y", "i", "n", "g">>,
    <<"v", "i", "o", "l", "e", "n", "c", "e">>,
    <<"f", "i", "g", "h", "t">>,
    <<"h", "u", "r", "t">>,
    <<"p", "a", "i", "n">>,
    <<"d", "a", "n", "g", "e", "r">>,
    <<"w", "e", "a", "p", "o", "n">>,
    <<"d", "e", "a", "t", "h">>,
    <<"k", "i", "l", "l">> >>

\* an isContentSafe that compares without lowering the content
isContentSafe_caseSensitive(content) ==
  LET foundWords == SelectSeq(inappropriateWords,
                              LAMBDA word : includes(content, word))
  IN  [isSafe |-> Len(foundWords) = 0,
       flaggedWords |-> foundWords,
       severity |-> IF Len(foundWords) > 2 THEN "high"
                    ELSE IF Len(foundWords) > 0 THEN "medium" ELSE "safe"]

isContentSafe(content) ==
  LET lowercaseContent == toLowerCase(content)
      foundWords == SelectSeq(inappropriateWords,
                              LAMBDA word : includes(lowercaseContent, word))
  IN  [isSafe |-> Len(foundWords) = 0,
       flaggedWords |-> foundWords,
       severity |-> IF Len(foundWords) > 2 THEN "high"
                    ELSE IF Len(foundWords) > 0 THEN "medium" ELSE "safe"]

\* generateStory after the provider has answered: trim, enhance, enforce
generateStoryContent(reply) ==
  enforceWordLimit(enhanceWithExpressions(trim(reply)), generateStoryWordLimit)

\* generateTitle after the provider has answered: drop the quotes, trim
titleFromReply(reply) == trim(SelectSeq(reply, LAMBDA c : c # "\""))

\* a fallback that leaves the story type out
fallbackTitle_untyped(name) == <<"A", " ", "M", "a", "g", "i", "c", "a", "l", " ", "T", "a", "l", "e">>

\* `A Magical ${storyType.name} Tale`
fallbackTitle(name) == <<"A", " ", "M", "a", "g", "i", "c", "a", "l", " ">> \o name \o <<" ", "T", "a", "l", "e">>

(***************************************************************************)
(* Bounds and inputs                                                       *)
(***************************************************************************)
\* the number of continueStory requests made
MaxContinuations == 2

StoryId == "story1"

Owner == "user1"

Stranger == "user2"

\* the URL fields hold null, the empty string '' or a URL
Null == [kind |-> "null"]

EmptyString == [kind |-> "empty"]

Url(file) == [kind |-> "url", file |-> file]

\* the catalogue read by getStoryTypeById
adventureType == [id |-> "adventure", name |-> <<"A", "d", "v", "e", "n", "t", "u", "r", "e">>]

\* a lookup that finds a story type under every id
getStoryTypeById_anyId(storyTypeId) == adventureType

getStoryTypeById(storyTypeId) ==
  IF storyTypeId = adventureType.id THEN adventureType ELSE Null

\* title: 'Generating your magical story...'
GeneratingTitle == <<"G", "e", "n", "e", "r", "a", "t", "i", "n", "g", " ", "y", "o", "u", "r", " ", "m", "a", "g", "i", "c", "a", "l", " ", "s", "t", "o", "r", "y", ".", ".", ".">>

\* what the text-generation provider may answer
PlainReply == <<" ", "I", " ", "s", "a", "w", ".", " ", "O", "k", ".", "\n">>

UnsafeReply == <<"S", "o", " ", "s", "c", "a", "r", "y", ".">>

StoryReplies == {PlainReply, UnsafeReply}

\* what the title provider may answer
TitleReplies == {<<"\"", "T", "h", "e", " ", "H", "a", "t", "\"">>}

\* the lengths a buffer received from a provider may have
BufferSizes == {0, 1}

VisionReplies == {"a cat in a hat"}

SpeechReplies == {"tell a story about a cat"}

\* return value of analyzeDrawing when the provider call fails
drawingFallback ==
  "A wonderful drawing with creative elements that inspire an amazing story."

PromptOnly ==
  [storyTypeId |-> "adventure", drawingImageBase64 |-> FALSE,
   voiceInputBase64 |-> FALSE, userPrompt |-> "A mouse goes on an adventure",
   characterNames |-> <<"Pip">>, generateIllustrations |-> TRUE]

CreateRequests ==
  { PromptOnly,
    [PromptOnly EXCEPT !.generateIllustrations = FALSE,
                       !.drawingImageBase64 = TRUE, !.voiceInputBase64 = TRUE,
                       !.userPrompt = ""],
    [PromptOnly EXCEPT !.userPrompt = ""],
    [PromptOnly EXCEPT !.storyTypeId = "invalid-story-type"] }

ContinueRequests ==
  { [userId |-> Owner, additionalPrompt |-> "Continue the story",
     newCharacters |-> <<"Rex">>],
    [userId |-> Stranger, additionalPrompt |-> "Continue the story",
     newCharacters |-> <<>>] }

\* n copies of a text, one after the other
RECURSIVE Repeat(_, _)
Repeat(t, n) ==
  IF n = 0 THEN <<>>
  ELSE IF n = 1 THEN t
  ELSE Repeat(t, n \div 2) \o Repeat(t, n - n \div 2)

\* a text of the provider of one word more than enhanceWithExpressions
\* keeps, with no expression in it and a denylisted last word
LateUnsafeReply == Repeat(<<"a", " ">>, enhanceMaxWords) \o <<"k", "i", "l", "l", ".">>

\* a text of the provider of one word more than half the word ceiling, with
\* three expressions in it
HalfCeilingReply ==
  <<"W", "o", "w", " ", "w", "o", "w", " ", "w", "o", "w", " ">>
    \o Repeat(<<"a", " ">>, maxStoryWords \div 2 - 3) \o <<"e", "n", "d", ".">>

LongReplies == {LateUnsafeReply, HalfCeilingReply}

\* the longest text handed to enforceWordLimit, and the largest limit
MaxTextLen == 6

MaxLimit == 3

TextAlphabet == {"a", " ", "."}

\* texts of three words whose first two words, joined, have their last
\* terminator at index 7 of 10 characters, at index 8 of 11, and at index 63
\* of 90 (where 90 * 0.7 is rounded below 63)
BoundaryTexts ==
  { <<"a", "a", "a", "a", "a", "a", "a", ".", " ", "a", " ", "b">>,
    <<"a", "a", "a", "a", "a", "a", "a", "a", ".", " ", "a", " ", "b">>,
    Repeat(<<"a">>, 63) \o <<".", " ">> \o Repeat(<<"a">>, 25) \o <<" ", "b">> }

LimitTexts == UNION {[1..n -> TextAlphabet] : n \in 0..MaxTextLen} \cup BoundaryTexts

\* the contents handed to isContentSafe: up to MaxPhrases phrases, joined
\* by spaces
MaxPhrases == 3

HappyContent == <<"a", " ", "h", "a", "p", "p", "y", " ", "s", "t", "o", "r", "y", " ", "a", "b", "o", "u", "t", " ", "f", "r", "i", "e", "n", "d", "s", "h", "i", "p">>

ScaryContent == <<"t", "h", "i", "s", " ", "i", "s", " ", "a", " ", "s", "c", "a", "r", "y", " ", "d", "a", "n", "g", "e", "r", "o", "u", "s", " ", "s", "t", "o", "r", "y">>

Phrases ==
  { HappyContent, ScaryContent,
    <<"S", "C", "A", "R", "Y", " ", "F", "i", "g", "h", "t">>,
    <<"a", " ", "p", "a", "i", "n", "t", "i", "n", "g">>,
    <<"K", "i", "l", "l">>,
    <<"o", "k">> }

RECURSIVE joinPhrases(_)
joinPhrases(ps) ==
  IF ps = <<>> THEN <<>>
  ELSE IF Len(ps) = 1 THEN ps[1]
  ELSE ps[1] \o <<" ">> \o joinPhrases(Tail(ps))

SafetyContents ==
  {joinPhrases(ps) : ps \in UNION {[1..n -> Phrases] : n \in 0..MaxPhrases}}

(***************************************************************************)
(* Errors                                                                  *)
(***************************************************************************)
\* an Error: its message, and the words a safety failure joins into it
Err(msg) == [message |-> msg, detail |-> <<>>]

\* the rejection of a Firestore call
StoreError == Err("firestore: unavailable")

\* uploadFile: `Failed to upload file: ${error.message}`
UploadError == Err("Failed to upload file: storage: unavailable")

\* saveGeneratedAudio: `Failed to save audio to storage: ${error.message}`
AudioUploadError ==
  Err("Failed to save audio to storage: Failed to upload file: storage: unavailable")

AudioBufferError ==
  Err("Failed to save audio to storage: Invalid audio buffer provided")

ImageBufferError == Err("Invalid image buffer provided")

StoryGenerationError == Err("Failed to generate story content")

NarrationError == Err("Failed to generate audio narration")

\* `Content safety check failed: ${safetyCheck.flaggedWords.join(', ')}`
SafetyError(safetyCheck) ==
  [message |-> "Content safety check failed: ", detail |-> safetyCheck.flaggedWords]

(***************************************************************************)
(* State                                                                   *)
(***************************************************************************)
VARIABLES
  story,      \* the Firestore document stories/story1; <<>> while it does not exist
  clock,      \* the time new Date() reads: advanced by every document write
  gen,        \* the generateStoryWithAI run: its position and its locals
  conts,      \* the continueStory requests and their continueStoryWithAI runs
  response,   \* the last HTTP response sent
  statusLog,  \* history: every status value persisted, in order, with its writer
  calls,      \* history: provider calls made by the generateStoryWithAI run,
              \* what the text provider answered, the waits made for it and
              \* the text it returned
  limited,    \* a text, a word limit and the results of enforceWordLimit on them
  checked,    \* a content and what isContentSafe returned for it
  deletion    \* the deleteStory request: its position and its answer

vars == <<story, clock, gen, conts, response, statusLog, calls, limited, checked,
          deletion>>

Slots == 1..MaxContinuations

DocExists == DOMAIN story # {}

\* Firestore update(): top-level fields are replaced, the others are kept
Merge(base, upd) ==
  [k \in DOMAIN base \cup DOMAIN upd |-> IF k \in DOMAIN upd THEN upd[k] ELSE base[k]]

\* a?.f || d
Get(rec, field, default) == IF field \in DOMAIN rec THEN rec[field] ELSE default

\* Firestore update() fails when the document does not exist; ok tells
\* whether the store is otherwise able to take the write
updateAccepted_upsert(ok) == ok

updateAccepted(ok) == ok /\ DocExists

\* StoryRepository.getStoryById: null when the document does not exist
getStoryById(doc) == IF DOMAIN doc = {} THEN Null ELSE doc

\* StoryRepository.updateStory accepted by the store
updateStory(doc, updateData, now) == Merge(doc, Merge(updateData, [updatedAt |-> now]))

Write(by, updateData) ==
  /\ story' = updateStory(story, updateData, clock + 1)
  /\ clock' = clock + 1
  /\ statusLog' = IF "status" \in DOMAIN updateData
                    THEN Append(statusLog, [by |-> by, status |-> updateData.status])
                    ELSE statusLog

NoWrite == UNCHANGED <<story, clock, statusLog>>

(***************************************************************************)
(* StoryService.createStory                                                *)
(***************************************************************************)
initialStoryData(userId, storyData) ==
  [userId |-> userId,
   title |-> GeneratingTitle,
   content |-> <<>>,
   storyTypeId |-> storyData.storyTypeId,
   status |-> "generating",
   characterNames |-> storyData.characterNames,
   userInput |-> [drawingProvided |-> storyData.drawingImageBase64,
                  voiceProvided |-> storyData.voiceInputBase64,
                  userPrompt |-> storyData.userPrompt,
                  generateIllustrations |-> storyData.generateIllustrations,
                  length |-> "medium",
                  language |-> "en"],
   media |-> [narratorVoiceUrl |-> Null,
              backgroundMusicUrl |-> Null,
              illustrationUrls |-> <<>>,
              voiceSettings |-> "{}"],
   metadata |-> [language |-> "en",
                 wordCount |-> 0,
                 readingLevel |-> 1,
                 estimatedReadingTime |-> 0,
                 isAgeAppropriate |-> TRUE],
   drawingImageUrl |-> Null,
   voiceInputUrl |-> Null,
   isFavorite |-> FALSE,
   isShared |-> FALSE,
   likesCount |-> 0,
   tags |-> <<>>]

\* the locals of generateStoryWithAI when it is called
startedRun(storyData) ==
  [pc |-> "updateProcessing",
   input |-> storyData,
   storyType |-> getStoryTypeById(storyData.storyTypeId),
   drawingAnalysis |-> "",
   drawingImageUrl |-> EmptyString,
   voiceTranscription |-> "",
   voiceInputUrl |-> EmptyString,
   illustrationUrls |-> <<>>,
   failedAt |-> "",           \* history: the step that threw
   unsafe |-> FALSE,          \* history: the safety check reported isSafe = false
   failureWritten |-> FALSE]  \* history: a status = failed update was accepted

Reply(op, code, body) == [op |-> op, code |-> code, body |-> body]

\* the response to a createStory request, with the request it answers and
\* whether the story type lookup returned (history)
Answer(storyData, typeReadOk, code, body) ==
  [op |-> "createStory", code |-> code, body |-> body,
   request |-> storyData, typeReadOk |-> typeReadOk]

createStory(storyData, typeReadOk, createOk) ==
  /\ gen.pc = "none"
  /\ UNCHANGED <<limited, checked, deletion, conts, calls>>
  /\ IF ~typeReadOk
       THEN /\ response' = Answer(storyData, typeReadOk, 500, StoreError.message)
            /\ UNCHANGED <<gen>> /\ NoWrite
     ELSE IF getStoryTypeById(storyData.storyTypeId) = Null
       THEN /\ response' = Answer(storyData, typeReadOk, 400, "Invalid story type")
            /\ UNCHANGED <<gen>> /\ NoWrite
     ELSE IF ~storyData.drawingImageBase64 /\ ~storyData.voiceInputBase64
             /\ storyData.userPrompt = ""
       THEN /\ response' = Answer(storyData, typeReadOk, 400,
                 "At least one input method is required (drawing, voice, or text prompt)")
            /\ UNCHANGED <<gen>> /\ NoWrite
     ELSE IF ~createOk
       THEN /\ response' = Answer(storyData, typeReadOk, 500, StoreError.message)
            /\ UNCHANGED <<gen>> /\ NoWrite
     ELSE /\ story' = Merge(initialStoryData(Owner, storyData),
                            [createdAt |-> clock + 1, updatedAt |-> clock + 1])
          /\ clock' = clock + 1
          /\ statusLog' = Append(statusLog, [by |-> "createStory", status |-> story'.status])
          /\ gen' = startedRun(storyData)
          /\ response' = Answer(storyData, typeReadOk, 201, "generating")

(***************************************************************************)
(* StoryService.generateStoryWithAI                                        *)
(***************************************************************************)
calculateStoryMetadata(content, language) ==
  LET words == splitLength(content, WhiteSpace)
      sentences == splitLength(content, Terminators)
  IN  [wordCount |-> words,
       \* avgWordsPerSentence = words / sentences, compared with 15 and 10
       readingLevel |-> IF words > 15 * sentences THEN 3
                        ELSE IF words > 10 * sentences THEN 2 ELSE 1,
       \* Math.ceil(words / 150) * 60
       estimatedReadingTime |-> ((words + 149) \div 150) * 60,
       language |-> language,
       isAgeAppropriate |-> TRUE]

musicMap == <<
    <<<<"a", "d", "v", "e", "n", "t", "u", "r", "e">>, "adventure_theme.mp3">>,
    <<<<"f", "a", "n", "t", "a", "s", "y">>, "magical_theme.mp3">>,
    <<<<"m", "y", "s", "t", "e", "r", "y">>, "mysterious_theme.mp3">>,
    <<<<"f", "r", "i", "e", "n", "d", "s", "h", "i", "p">>, "heartwarming_theme.mp3">>,
    <<<<"e", "d", "u", "c", "a", "t", "i", "o", "n", "a", "l">>, "learning_theme.mp3">>,
    <<<<"a", "n", "i", "m", "a", "l">>, "nature_theme.mp3">>,
    <<<<"s", "u", "p", "e", "r", "h", "e", "r", "o">>, "heroic_theme.mp3">>,
    <<<<"f", "a", "m", "i", "l", "y">>, "cozy_theme.mp3">> >>

selectBackgroundMusic(storyType) ==
  LET key == toLowerCase(storyType.name)
      hits == {i \in 1..Len(musicMap) : musicMap[i][1] = key}
  IN  Url(IF hits = {} THEN "general_theme.mp3" ELSE musicMap[MinOf(hits)][2])

\* what generateNarration returns; duration = Math.ceil(wordCount * 0.5)
narrationResult(text, bytes) ==
  [audioBuffer |-> bytes,
   duration |-> (countWords(text) + 1) \div 2,
   voiceId |-> "EXAVITQu4vr4xnSDxMaL"]

\* a final update that stores no narration
generatedMedia_noNarration(run) ==
  [narratorVoiceUrl |-> Null,
   narratorVoiceId |-> run.audioData.voiceId,
   backgroundMusicUrl |-> selectBackgroundMusic(run.storyType),
   illustrationUrls |-> run.illustrationUrls,
   voiceSettings |-> "{}",
   totalDuration |-> run.audioData.duration]

\* the media of the updateData of step 10
generatedMedia(run) ==
  [narratorVoiceUrl |-> run.narratorVoiceUrl,
   narratorVoiceId |-> run.audioData.voiceId,
   backgroundMusicUrl |-> selectBackgroundMusic(run.storyType),
   illustrationUrls |-> run.illustrationUrls,
   voiceSettings |-> "{}",
   totalDuration |-> run.audioData.duration]

\* the updateData of step 10
finalUpdateData(run, now) ==
  [title |-> run.storyTitle,
   content |-> run.storyContent,
   status |-> "completed",
   completedAt |-> now,
   drawingImageUrl |-> run.drawingImageUrl,
   voiceInputUrl |-> run.voiceInputUrl,
   media |-> generatedMedia(run),
   metadata |-> Merge(calculateStoryMetadata(run.storyContent, "en"),
                      [aiGenerationData |->
                         [drawingAnalysis |-> run.drawingAnalysis,
                          voiceTranscription |-> run.voiceTranscription,
                          generatedAt |-> now,
                          model |-> "gpt-4",
                          voiceModel |-> "eleven-labs",
                          safetyCheck |-> run.safetyCheck]])]

\* a catch block that records no error
failedUpdateData_noError(error) == [status |-> "failed"]

\* the updateData of the catch block of generateStoryWithAI
failedUpdateData(error) == [status |-> "failed", error |-> error]

\* a .catch handler that leaves the status of the run
catchHandlerUpdateData_processing(error) == [status |-> "processing", error |-> error]

\* the updateData of createStory's .catch handler
catchHandlerUpdateData(error) == [status |-> "failed", error |-> error]

\* the first await after the drawing step
afterDrawing(input) ==
  IF input.voiceInputBase64 THEN "transcribeVoice" ELSE "generateStory"

\* the first await after the status update
afterProcessing(input) ==
  IF input.drawingImageBase64 THEN "analyzeDrawing" ELSE afterDrawing(input)

\* an await inside the try block throws: control moves to the catch block,
\* which sees the error and none of the locals of the try block
Throw(error, at) ==
  gen' = [pc |-> "catch", error |-> error, failedAt |-> at, unsafe |-> gen.unsafe,
          failureWritten |-> FALSE]

\* a run whose first update does not leave generating
processingUpdateData_generating == [status |-> "generating"]

\* the first update of the run
processingUpdateData == [status |-> "processing"]

GenUpdateProcessing(ok) ==
  /\ gen.pc = "updateProcessing"
  /\ UNCHANGED <<limited, checked, deletion, conts, response, calls>>
  /\ IF updateAccepted(ok)
       THEN /\ Write("generateStoryWithAI", processingUpdateData)
            /\ gen' = [gen EXCEPT !.pc = afterProcessing(gen.input)]
       ELSE /\ NoWrite
            /\ Throw(StoreError, "updateProcessing")

\* an analyzeDrawing that throws what the provider call threw
GenAnalyzeDrawing_throwing(ok, reply) ==
  /\ gen.pc = "analyzeDrawing"
  /\ UNCHANGED <<limited, checked, deletion, conts, response, calls>> /\ NoWrite
  /\ IF ok
       THEN gen' = Merge(gen, [pc |-> "saveDrawing",
                               visionFailed |-> FALSE,
                               drawingAnalysis |-> reply])
       ELSE Throw(Err("Failed to analyze drawing"), "analyzeDrawing")

\* analyzeDrawing never throws: a failed provider call yields the fallback
GenAnalyzeDrawing(ok, reply) ==
  /\ gen.pc = "analyzeDrawing"
  /\ UNCHANGED <<limited, checked, deletion, conts, response, calls>> /\ NoWrite
  /\ gen' = Merge(gen, [pc |-> "saveDrawing",
                        visionFailed |-> ~ok,   \* history
                        drawingAnalysis |-> IF ok THEN reply ELSE drawingFallback])

GenSaveDrawing(ok) ==
  /\ gen.pc = "saveDrawing"
  /\ UNCHANGED <<limited, checked, deletion, conts, response, calls>> /\ NoWrite
  /\ IF ok
       THEN gen' = [gen EXCEPT !.pc = afterDrawing(gen.input),
                               !.drawingImageUrl = Url("drawings/user1/story1/drawing.jpg")]
       ELSE Throw(UploadError, "saveDrawing")

\* transcribeVoice never throws: a failed provider call yields ''
GenTranscribeVoice(ok, reply) ==
  /\ gen.pc = "transcribeVoice"
  /\ UNCHANGED <<limited, checked, deletion, conts, response, calls>> /\ NoWrite
  /\ gen' = Merge(gen, [pc |-> "saveVoiceInput",
                        speechFailed |-> ~ok,   \* history
                        voiceTranscription |-> IF ok THEN reply ELSE ""])

GenSaveVoiceInput(ok) ==
  /\ gen.pc = "saveVoiceInput"
  /\ UNCHANGED <<limited, checked, deletion, conts, response, calls>> /\ NoWrite
  /\ IF ok
       THEN gen' = [gen EXCEPT !.pc = "generateStory",
                               !.voiceInputUrl = Url("voice/user1/story1/voice.wav")]
       ELSE Throw(UploadError, "saveVoiceInput")

\* a run that ignores the result of the check
passesSafetyGate_always(safetyCheck) == TRUE

\* what the text provider answers to the successive requests of one call of
\* generateStory: a reply, a transient failure (5xx, timeout) or a terminal
\* one (4xx)
TextCallScripts ==
  { <<"ok", "ok", "ok">>,
    <<"transient", "transient", "ok">>,
    <<"transient", "transient", "transient">>,
    <<"terminal", "terminal", "terminal">> }

\* the requests of one call of generateStory: a single axios.post inside a
\* try block whose catch throws; no request is repeated and nothing waits
providerCall(outcomes) ==
  [invocations |-> 1, waits |-> <<>>, ok |-> outcomes[1] = "ok"]

\* step 5: the run goes on to the title only when the check passes
passesSafetyGate(safetyCheck) == safetyCheck.isSafe

\* steps 4 and 5: generateStory, then the safety check on what it returned
GenGenerateStory(outcomes, reply) ==
  /\ gen.pc = "generateStory"
  /\ UNCHANGED <<limited, checked, deletion, conts, response>> /\ NoWrite
  /\ calls' = [calls EXCEPT !.text = @ + providerCall(outcomes).invocations,
                            !.textOutcomes = outcomes,
                            !.textWaits = providerCall(outcomes).waits,
                            !.textReply = IF providerCall(outcomes).ok THEN reply
                                          ELSE <<>>]
  /\ IF ~providerCall(outcomes).ok
       THEN Throw(StoryGenerationError, "generateStory")
       ELSE LET storyContent == generateStoryContent(reply)
                safetyCheck == isContentSafe(storyContent)
            IN  IF passesSafetyGate(safetyCheck)
                  THEN gen' = Merge(gen, [pc |-> "generateTitle",
                                          storyContent |-> storyContent,
                                          safetyCheck |-> safetyCheck,
                                          unsafe |-> ~safetyCheck.isSafe])
                  ELSE gen' = [pc |-> "catch", error |-> SafetyError(safetyCheck),
                               failedAt |-> "safetyCheck",
                               unsafe |-> ~safetyCheck.isSafe,
                               failureWritten |-> FALSE]

\* generateTitle never throws: a failed provider call yields the template
GenGenerateTitle(ok, reply) ==
  /\ gen.pc = "generateTitle"
  /\ UNCHANGED <<limited, checked, deletion, conts, response>> /\ NoWrite
  /\ calls' = [calls EXCEPT !.title = @ + 1]
  /\ gen' = Merge(gen, [pc |-> "generateNarration",
                        titleFailed |-> ~ok,   \* history
                        storyTitle |-> IF ok THEN titleFromReply(reply)
                                       ELSE fallbackTitle(gen.storyType.name)])

GenGenerateNarration(ok, bytes) ==
  /\ gen.pc = "generateNarration"
  /\ UNCHANGED <<limited, checked, deletion, conts, response>> /\ NoWrite
  /\ calls' = [calls EXCEPT !.narration = @ + 1]
  /\ IF ok
       THEN gen' = Merge(gen, [pc |-> "saveGeneratedAudio",
                               audioData |-> narrationResult(gen.storyContent, bytes)])
       ELSE Throw(NarrationError, "generateNarration")

afterAudio(input) ==
  IF input.generateIllustrations THEN "generateIllustrations" ELSE "finalUpdate"

GenSaveGeneratedAudio(ok) ==
  /\ gen.pc = "saveGeneratedAudio"
  /\ UNCHANGED <<limited, checked, deletion, conts, response, calls>> /\ NoWrite
  /\ IF gen.audioData.audioBuffer = 0
       THEN Throw(AudioBufferError, "saveGeneratedAudio")
     ELSE IF ~ok
       THEN Throw(AudioUploadError, "saveGeneratedAudio")
     ELSE gen' = Merge(gen, [pc |-> afterAudio(gen.input),
                             narratorVoiceUrl |-> Url("stories/story1/narration.mp3")])

\* generateIllustrations never throws; extractKeyScenes yields one scene.
\* outcome: "image" (generated and downloaded, of the given size), "nourl"
\* (the provider's answer carries no url) or "error" (the simulated image)
GenGenerateIllustrations(outcome, bytes) ==
  /\ gen.pc = "generateIllustrations"
  /\ UNCHANGED <<limited, checked, deletion, conts, response>> /\ NoWrite
  /\ calls' = [calls EXCEPT !.illustration = @ + 1]
  /\ LET illustrations ==
           IF outcome = "image" THEN <<[imageBuffer |-> bytes]>>
           ELSE IF outcome = "nourl" THEN <<>>
           ELSE <<[imageBuffer |-> 1]>>
     IN  gen' = Merge(gen, [pc |-> IF illustrations = <<>> THEN "finalUpdate"
                                   ELSE "saveIllustration",
                            illustrations |-> illustrations])

\* the loop of step 8, one saveIllustration per iteration
GenSaveIllustration(ok) ==
  /\ gen.pc = "saveIllustration"
  /\ UNCHANGED <<limited, checked, deletion, conts, response, calls>> /\ NoWrite
  /\ LET i == Len(gen.illustrationUrls) + 1
     IN  IF gen.illustrations[i].imageBuffer = 0
           THEN Throw(ImageBufferError, "saveIllustration")
         ELSE IF ~ok
           THEN Throw(UploadError, "saveIllustration")
         ELSE gen' = [gen EXCEPT
                        !.illustrationUrls = Append(@, Url("illustrations/story1/image.jpg")),
                        !.pc = IF i = Len(gen.illustrations) THEN "finalUpdate"
                               ELSE "saveIllustration"]

GenFinalUpdate(ok) ==
  /\ gen.pc = "finalUpdate"
  /\ UNCHANGED <<limited, checked, deletion, conts, response, calls>>
  /\ IF updateAccepted(ok)
       THEN /\ Write("generateStoryWithAI", finalUpdateData(gen, clock + 1))
            /\ gen' = [gen EXCEPT !.pc = "updateUserProgress"]
       ELSE /\ NoWrite
            /\ Throw(StoreError, "finalUpdate")

\* step 11, still inside the try block
GenUpdateUserProgress(ok) ==
  /\ gen.pc = "updateUserProgress"
  /\ UNCHANGED <<limited, checked, deletion, conts, response, calls>> /\ NoWrite
  /\ IF ok
       THEN gen' = [pc |-> "done", failedAt |-> "", unsafe |-> gen.unsafe,
                    failureWritten |-> FALSE]
       ELSE Throw(StoreError, "updateUserProgress")

\* the catch block: await updateStory(failed), then throw error; when the
\* update itself is rejected, the promise rejects with the store's error
GenCatch(ok) ==
  /\ gen.pc = "catch"
  /\ UNCHANGED <<limited, checked, deletion, conts, response, calls>>
  /\ IF updateAccepted(ok)
       THEN /\ Write("generateStoryWithAI", failedUpdateData(gen.error))
            /\ gen' = Merge(gen, [pc |-> "rejected", rejection |-> gen.error,
                                  failureWritten |-> TRUE])
       ELSE /\ NoWrite
            /\ gen' = Merge(gen, [pc |-> "rejected", rejection |-> StoreError])

\* a createStory that awaits the run and answers with its failure
GenRejected_raised(ok) ==
  /\ gen.pc = "rejected"
  /\ UNCHANGED <<limited, checked, deletion, conts, calls>>
  /\ response' = [response EXCEPT !.code = 500, !.body = gen.rejection.message]
  /\ IF updateAccepted(ok)
       THEN /\ Write("createStory", catchHandlerUpdateData(gen.rejection))
            /\ gen' = [pc |-> "done", failedAt |-> gen.failedAt,
                        unsafe |-> gen.unsafe, failureWritten |-> TRUE]
       ELSE /\ NoWrite
            /\ gen' = [pc |-> "done", failedAt |-> gen.failedAt,
                        unsafe |-> gen.unsafe,
                        failureWritten |-> gen.failureWritten]

\* createStory's .catch handler: updateStory(failed) that nothing awaits
GenRejected(ok) ==
  /\ gen.pc = "rejected"
  /\ UNCHANGED <<limited, checked, deletion, conts, response, calls>>
  /\ IF updateAccepted(ok)
       THEN /\ Write("createStory", catchHandlerUpdateData(gen.rejection))
            /\ gen' = [pc |-> "done", failedAt |-> gen.failedAt,
                        unsafe |-> gen.unsafe, failureWritten |-> TRUE]
       ELSE /\ NoWrite
            /\ gen' = [pc |-> "done", failedAt |-> gen.failedAt,
                        unsafe |-> gen.unsafe,
                        failureWritten |-> gen.failureWritten]

GenNext ==
  \/ \E ok \in BOOLEAN : GenUpdateProcessing(ok)
  \/ \E ok \in BOOLEAN, reply \in VisionReplies : GenAnalyzeDrawing(ok, reply)
  \/ \E ok \in BOOLEAN : GenSaveDrawing(ok)
  \/ \E ok \in BOOLEAN, reply \in SpeechReplies : GenTranscribeVoice(ok, reply)
  \/ \E ok \in BOOLEAN : GenSaveVoiceInput(ok)
  \/ \E outcomes \in TextCallScripts, reply \in StoryReplies :
       GenGenerateStory(outcomes, reply)
  \/ \E ok \in BOOLEAN, reply \in TitleReplies : GenGenerateTitle(ok, reply)
  \/ \E ok \in BOOLEAN, bytes \in BufferSizes : GenGenerateNarration(ok, bytes)
  \/ \E ok \in BOOLEAN : GenSaveGeneratedAudio(ok)
  \/ \E outcome \in {"image", "nourl", "error"}, bytes \in BufferSizes :
       GenGenerateIllustrations(outcome, bytes)
  \/ \E ok \in BOOLEAN : GenSaveIllustration(ok)
  \/ \E ok \in BOOLEAN : GenFinalUpdate(ok)
  \/ \E ok \in BOOLEAN : GenUpdateUserProgress(ok)
  \/ \E ok \in BOOLEAN : GenCatch(ok)
  \/ \E ok \in BOOLEAN : GenRejected(ok)

(***************************************************************************)
(* StoryService.continueStory and continueStoryWithAI                      *)
(***************************************************************************)
\* a continueStory without the status check
canContinue_anyStatus(doc) == TRUE

\* the status check of continueStory
canContinue(doc) == doc.status = "completed"

\* the checks of continueStory on the document it fetched, in the order of
\* the code: the AppError thrown, or code 0 when the request is admitted
continueStoryCheck(doc, userId) ==
  IF DOMAIN doc = {}
    THEN [code |-> 404, message |-> "Story not found"]
  ELSE IF doc.userId # userId
    THEN [code |-> 403, message |-> "Access denied"]
  ELSE IF ~canContinue(doc)
    THEN [code |-> 400, message |-> "Cannot continue a story that is not completed"]
  ELSE [code |-> 0, message |-> ""]

\* the input handed to continueStoryWithAI, read from the fetched document
continuationInput(doc, continuationData) ==
  [existingContent |-> doc.content,
   additionalPrompt |-> continuationData.additionalPrompt,
   newCharacters |-> continuationData.newCharacters,
   storyTypeId |-> doc.storyTypeId,
   language |-> Get(doc.metadata, "language", "en")]

\* the requests are numbered in the order they arrive
NextRequest(s) == conts[s].pc = "free" /\ \A r \in 1..(s - 1) : conts[r].pc # "free"

\* continueStory up to its first update: getStoryById and the three checks.
\* A request that fails a check is answered with the error; an admitted one
\* goes on to its updateStory(generating)
continueStory(s, continuationData) ==
  /\ NextRequest(s)
  /\ UNCHANGED <<limited, checked, deletion, gen, calls, response>> /\ NoWrite
  /\ LET check == continueStoryCheck(story, continuationData.userId)
     IN  conts' = [conts EXCEPT ![s] =
           IF check.code # 0
             THEN [pc |-> "refused", userId |-> continuationData.userId,
                   response |-> check]
             ELSE [pc |-> "updateGenerating", userId |-> continuationData.userId,
                   input |-> continuationInput(story, continuationData)]]

\* await updateStory(generating); then the run is started and the request
\* is answered.  A rejected update is thrown to the caller
ContUpdateGenerating(s, ok) ==
  /\ conts[s].pc = "updateGenerating"
  /\ UNCHANGED <<limited, checked, deletion, gen, calls, response>>
  /\ IF updateAccepted(ok)
       THEN /\ Write("continueStory", [status |-> "generating"])
            /\ conts' = [conts EXCEPT ![s].pc = "generate"]
       ELSE /\ NoWrite
            /\ conts' = [conts EXCEPT ![s] =
                 [pc |-> "refused", userId |-> conts[s].userId,
                  response |-> [code |-> 500, message |-> StoreError.message]]]

\* an await of continueStoryWithAI throws: its catch block rethrows, and
\* the .catch handler of continueStory is entered with the error.  The
\* document continueStory fetched is still in the handler's scope
ContThrow(s, error) ==
  conts' = [conts EXCEPT ![s] =
              [pc |-> "rejected", error |-> error,
               existingContent |-> conts[s].input.existingContent]]

\* input.existingContent + '\n\n' + continuation
appendContinuation(existingContent, continuation) ==
  existingContent \o <<"\n", "\n">> \o continuation

\* the awaits of continueStoryWithAI before its update, none of which reads
\* or writes the story document: getStoryTypeById, generateStory,
\* generateNarration and saveGeneratedAudio.  failing names the first of
\* them that throws, "" when none does
ContGenerate(s, failing, reply) ==
  /\ conts[s].pc = "generate"
  /\ UNCHANGED <<limited, checked, deletion, gen, calls, response>> /\ NoWrite
  /\ IF failing = "getStoryTypeById" THEN ContThrow(s, StoreError)
     ELSE IF failing = "generateStory" THEN ContThrow(s, StoryGenerationError)
     ELSE IF failing = "generateNarration" THEN ContThrow(s, NarrationError)
     ELSE IF failing = "saveGeneratedAudio" THEN ContThrow(s, AudioUploadError)
     ELSE LET continuation == generateStoryContent(reply)
          IN  conts' = [conts EXCEPT ![s] =
                Merge(@, [pc |-> "updateStory",
                          newContent |-> appendContinuation(
                                           conts[s].input.existingContent,
                                           continuation),
                          audioData |-> narrationResult(continuation, 1),
                          continuationAudioUrl |->
                            Url("stories/story1_continuation/narration.mp3")])]

\* a continuation that stamps the completion again
continuationUpdateData_stamped(run, now) ==
  [content |-> run.newContent,
   status |-> "completed",
   completedAt |-> now,
   characterNames |-> Get(run.input, "existingCharacterNames", <<>>)
                        \o run.input.newCharacters,
   media |-> [narratorVoiceUrl |-> run.continuationAudioUrl,
              totalDuration |-> run.audioData.duration],
   metadata |-> [wordCount |-> splitLength(run.newContent, WhiteSpace),
                 lastModified |-> now]]

\* the updateData of continueStoryWithAI; input.existingCharacterNames is
\* never set by continueStory, so (input.existingCharacterNames || []) is []
continuationUpdateData(run, now) ==
  [content |-> run.newContent,
   status |-> "completed",
   characterNames |-> Get(run.input, "existingCharacterNames", <<>>)
                        \o run.input.newCharacters,
   media |-> [narratorVoiceUrl |-> run.continuationAudioUrl,
              totalDuration |-> run.audioData.duration],
   metadata |-> [wordCount |-> splitLength(run.newContent, WhiteSpace),
                 lastModified |-> now]]

ContUpdateStory(s, ok) ==
  /\ conts[s].pc = "updateStory"
  /\ UNCHANGED <<limited, checked, deletion, gen, calls, response>>
  /\ IF updateAccepted(ok)
       THEN /\ Write("continueStoryWithAI", continuationUpdateData(conts[s], clock + 1))
            /\ conts' = [conts EXCEPT ![s] = [pc |-> "done"]]
       ELSE /\ NoWrite
            /\ ContThrow(s, StoreError)

\* the updateData of continueStory's .catch handler
revertUpdateData(error) == [status |-> "completed", error |-> error]

\* the .catch handler of continueStory: an update that nothing awaits
ContRejected(s, ok) ==
  /\ conts[s].pc = "rejected"
  /\ UNCHANGED <<limited, checked, deletion, gen, calls, response>>
  /\ IF updateAccepted(ok)
       THEN /\ Write("continueStory", revertUpdateData(conts[s].error))
            /\ conts' = [conts EXCEPT ![s] = [pc |-> "reverted"]]
       ELSE /\ NoWrite
            /\ conts' = [conts EXCEPT ![s] = [pc |-> "lost"]]

ContNext ==
  \/ \E s \in Slots, d \in ContinueRequests : continueStory(s, d)
  \/ \E s \in Slots, ok \in BOOLEAN : ContUpdateGenerating(s, ok)
  \/ \E s \in Slots, reply \in StoryReplies,
        failing \in {"", "getStoryTypeById", "generateStory", "generateNarration",
                     "saveGeneratedAudio"} : ContGenerate(s, failing, reply)
  \/ \E s \in Slots, ok \in BOOLEAN : ContUpdateStory(s, ok)
  \/ \E s \in Slots, ok \in BOOLEAN : ContRejected(s, ok)

Init ==
  /\ story = <<>>
  /\ clock = 0
  /\ gen = [pc |-> "none"]
  /\ conts = [s \in Slots |-> [pc |-> "free"]]
  /\ response = Reply("none", 0, "")
  /\ deletion = [pc |-> "none"]
  /\ statusLog = <<>>
  /\ calls = [text |-> 0, title |-> 0, narration |-> 0, illustration |-> 0,
              textOutcomes |-> <<>>, textWaits |-> <<>>, textReply |-> <<>>]
  /\ limited = [text |-> <<>>, maxWords |-> 0, outputs |-> <<>>]
  /\ checked = [content |-> <<>>, results |-> <<>>]

Next ==
  \/ \E d \in CreateRequests, a, b \in BOOLEAN : createStory(d, a, b)
  \/ GenNext
  \/ ContNext

Spec == Init /\ [][Next]_vars

(***************************************************************************)
(* AIService.enforceWordLimit on its own: any text, any limit, applied     *)
(* to its own result                                                       *)
(***************************************************************************)
pipelineVars == <<story, clock, gen, conts, response, statusLog, calls, deletion>>

LimitInit ==
  /\ story = <<>>
  /\ clock = 0
  /\ gen = [pc |-> "none"]
  /\ conts = [s \in Slots |-> [pc |-> "free"]]
  /\ response = Reply("none", 0, "")
  /\ deletion = [pc |-> "none"]
  /\ statusLog = <<>>
  /\ calls = [text |-> 0, title |-> 0, narration |-> 0, illustration |-> 0,
              textOutcomes |-> <<>>, textWaits |-> <<>>, textReply |-> <<>>]
  /\ \E text \in LimitTexts, maxWords \in 0..MaxLimit :
        limited = [text |-> text, maxWords |-> maxWords, outputs |-> <<>>]
  /\ checked = [content |-> <<>>, results |-> <<>>]

\* enforceWordLimit applied to the text, then to what it returned
ApplyEnforceWordLimit ==
  /\ Len(limited.outputs) < 2
  /\ LET input == IF limited.outputs = <<>> THEN limited.text
                  ELSE limited.outputs[Len(limited.outputs)]
     IN  limited' = [limited EXCEPT
                       !.outputs = Append(@, enforceWordLimit(input, limited.maxWords))]
  /\ UNCHANGED <<pipelineVars, checked>>

LimitSpec == LimitInit /\ [][ApplyEnforceWordLimit]_vars

(***************************************************************************)
(* AIService.isContentSafe on its own                                      *)
(***************************************************************************)
SafetyInit ==
  /\ story = <<>>
  /\ clock = 0
  /\ gen = [pc |-> "none"]
  /\ conts = [s \in Slots |-> [pc |-> "free"]]
  /\ response = Reply("none", 0, "")
  /\ deletion = [pc |-> "none"]
  /\ statusLog = <<>>
  /\ calls = [text |-> 0, title |-> 0, narration |-> 0, illustration |-> 0,
              textOutcomes |-> <<>>, textWaits |-> <<>>, textReply |-> <<>>]
  /\ limited = [text |-> <<>>, maxWords |-> 0, outputs |-> <<>>]
  /\ \E content \in SafetyContents : checked = [content |-> content, results |-> <<>>]

ApplyIsContentSafe ==
  /\ checked.results = <<>>
  /\ checked' = [checked EXCEPT !.results = <<isContentSafe(checked.content)>>]
  /\ UNCHANGED <<pipelineVars, limited>>

SafetySpec == SafetyInit /\ [][ApplyIsContentSafe]_vars

(***************************************************************************)
(* StoryService.deleteStory, by the owner or by another user, at any time  *)
(***************************************************************************)
RunInFlight ==
  \/ gen.pc \notin {"none", "done"}
  \/ \E s \in Slots :
       conts[s].pc \in {"updateGenerating", "generate", "updateStory", "rejected"}

\* deleteStory up to its delete: getStoryById and the two checks
deleteStory(userId) ==
  /\ deletion.pc = "none"
  /\ UNCHANGED <<limited, checked, gen, conts, calls, response>> /\ NoWrite
  /\ deletion' =
       IF getStoryById(story) = Null
         THEN [pc |-> "refused", code |-> 404, message |-> "Story not found"]
       ELSE IF story.userId # userId
         THEN [pc |-> "refused", code |-> 403, message |-> "Access denied"]
       ELSE [pc |-> "delete"]

\* await storyRepository.deleteStory(storyId): Firestore delete(), which
\* succeeds on a document that is already gone
DeleteDocument(ok) ==
  /\ deletion.pc = "delete"
  /\ UNCHANGED <<limited, checked, gen, conts, calls, response, clock, statusLog>>
  /\ IF ok
       THEN /\ story' = <<>>
            /\ deletion' = [pc |-> "deleted", code |-> 200,
                            message |-> "Story deleted successfully",
                            inFlight |-> RunInFlight]   \* history
       ELSE /\ story' = story
            /\ deletion' = [pc |-> "refused", code |-> 500,
                            message |-> StoreError.message]

DeleteNext ==
  \/ \E userId \in {Owner, Stranger} : deleteStory(userId)
  \/ \E ok \in BOOLEAN : DeleteDocument(ok)

DeleteSpec == Init /\ [][Next \/ DeleteNext]_vars

(***************************************************************************)
(* Runs on long texts: a request with a text prompt, an initial run and    *)
(* continuations of the owner in which every store and provider call       *)
(* succeeds, the text provider answering with a long text                  *)
(***************************************************************************)
OwnerRequests == {d \in ContinueRequests : d.userId = Owner}

LongNext ==
  \/ createStory(PromptOnly, TRUE, TRUE)
  \/ GenUpdateProcessing(TRUE)
  \/ \E reply \in LongReplies : GenGenerateStory(<<"ok", "ok", "ok">>, reply)
  \/ \E reply \in TitleReplies : GenGenerateTitle(TRUE, reply)
  \/ GenGenerateNarration(TRUE, 1)
  \/ GenSaveGeneratedAudio(TRUE)
  \/ GenGenerateIllustrations("image", 1)
  \/ GenSaveIllustration(TRUE)
  \/ GenFinalUpdate(TRUE)
  \/ GenUpdateUserProgress(TRUE)
  \/ \E s \in Slots, d \in OwnerRequests : continueStory(s, d)
  \/ \E s \in Slots : ContUpdateGenerating(s, TRUE)
  \/ \E s \in Slots, reply \in LongReplies : ContGenerate(s, "", reply)
  \/ \E s \in Slots : ContUpdateStory(s, TRUE)

LongSpec == Init /\ [][LongNext]_vars

\* ---------------------------------------------------------------------
\* Fairness: every call that is awaited or left pending returns, with a
\* result or an error, so a step of a started run is eventually taken
\* ---------------------------------------------------------------------
LiveSpec == Spec /\ WF_vars(GenNext) /\ WF_vars(ContNext)

\* ---------------------------------------------------------------------
\* Observations on the state and its history
\* ---------------------------------------------------------------------
NarratorVoiceUrl == story.media.narratorVoiceUrl

StatusesBy(writers) ==
  LET log == SelectSeq(statusLog, LAMBDA e : e.by \in writers)
  IN  [i \in 1..Len(log) |-> log[i].status]

\* the statuses persisted by createStory and by the run it started
GenStatuses == StatusesBy({"createStory", "generateStoryWithAI"})

EverCompleted == \E i \in 1..Len(statusLog) : statusLog[i].status = "completed"

LeftInitialStatus == Len(statusLog) > 1

IsPrefix(a, b) == Len(a) <= Len(b) /\ SubSeq(b, 1, Len(a)) = a

RunStarted == gen.pc \notin {"none", "done"}

RunEnded == gen.pc = "done"

\* the run ended without any of its awaits throwing
RunSucceeded == RunEnded /\ gen.failedAt = ""

PromptOnlyRequest ==
  /\ DocExists
  /\ ~story.userInput.drawingProvided
  /\ ~story.userInput.voiceProvided
  /\ story.userInput.userPrompt # ""

C4_RevertKeepsContent ==
  [][\A s \in Slots :
       (conts[s].pc = "rejected" /\ conts'[s].pc = "reverted") =>
          /\ story'.status = "completed"
          /\ story'.content = conts[s].existingContent]_vars

\* ---------------------------------------------------------------------
\* C5.  A continueStory request of the owner is admitted only when the
\* story's status is completed; in any other status it is answered 400
\* 'Cannot continue a story that is not completed', no continuation run is
\* started and the record is left as it was.
\* ---------------------------------------------------------------------
C5_ContinueOnlyCompleted ==
  [][\A s \in Slots :
       (conts[s].pc = "free" /\ conts'[s].pc # "free" /\ DocExists
          /\ conts'[s].userId = story.userId
          /\ story.status # "completed") =>
          /\ conts'[s].pc = "refused"
          /\ conts'[s].response =
               [code |-> 400,
                message |-> "Cannot continue a story that is not completed"]
          /\ story' = story
          /\ statusLog' = statusLog]_vars

C5_Witness ==
  \E s \in Slots :
     /\ conts[s].pc = "refused"
     /\ conts[s].userId = Owner
     /\ conts[s].response.code = 400
     /\ DocExists /\ story.status \in {"generating", "processing", "failed"}

\* ---------------------------------------------------------------------
\* C6.  A record with status completed has a narration reference that is
\* not null, and a record that was never completed has a null one.  (A
\* record that was completed keeps its narration reference while a
\* continuation has it in generating, and when it is marked failed, so
\* the reference is not null in those statuses either.)
\* ---------------------------------------------------------------------
C6_NarrationOfCompleted ==
  DocExists =>
     /\ (story.status = "completed" => NarratorVoiceUrl # Null)
     /\ (~EverCompleted => NarratorVoiceUrl = Null)

C6_Witness ==
  /\ DocExists /\ story.status = "completed" /\ NarratorVoiceUrl # Null
  /\ \E s \in Slots : conts[s].pc \in {"done", "reverted"}

\* C6 as stated: not null exactly when completed
C6_AsStated ==
  DocExists => (NarratorVoiceUrl # Null <=> story.status = "completed")

\* ---------------------------------------------------------------------
\* C7.  Once the status has left its initial value, no step replaces the
\* content by anything but an extension of it.
\* ---------------------------------------------------------------------
C7_ContentAppendOnly ==
  [][(DocExists /\ LeftInitialStatus) =>
        IsPrefix(story.content, story'.content)]_vars

\* ---------------------------------------------------------------------
\* C8.  Every started run ends, and when it has ended the record is
\* completed or failed unless the store rejected both failure updates
\* (the one of the catch block and the one of the .catch handler).
\* ---------------------------------------------------------------------
BothFailureUpdatesRejected == gen.failedAt # "" /\ ~gen.failureWritten

C9_FailedIsStable ==
  [][(DocExists /\ story.status = "failed") => story'.status = "failed"]_vars

\* ---------------------------------------------------------------------
\* C10.  The record carries an error only when its status is failed.
\* ---------------------------------------------------------------------
C10_ErrorOnlyWhenFailed ==
  (DocExists /\ "error" \in DOMAIN story) => story.status = "failed"

\* ---------------------------------------------------------------------
\* C11.  completedAt is written once: by the update that first sets the
\* status to completed, and by no other step.  A continuation that takes
\* the record out of completed and back leaves completedAt as it was.
\* ---------------------------------------------------------------------
CompletedAt(doc) == Get(doc, "completedAt", -1)

C11_CompletedAtOnce ==
  [][(DocExists /\ DOMAIN story' # {}) =>
        /\ (CompletedAt(story') # CompletedAt(story)) =>
              /\ "completedAt" \notin DOMAIN story
              /\ ~EverCompleted
              /\ story'.status = "completed"
        /\ (~EverCompleted /\ story'.status = "completed") =>
              "completedAt" \in DOMAIN story']_vars

C11_Witness ==
  /\ DocExists /\ story.status = "completed"
  /\ \E s \in Slots : conts[s].pc = "done"
  /\ "completedAt" \in DOMAIN story
  /\ story.completedAt < story.updatedAt

\* ---------------------------------------------------------------------
\* C12.  The text-generation call retries: a provider that fails twice
\* with transient errors and then replies is requested 3 times and the
\* call succeeds; one that always fails with a terminal error is requested
\* once and the call fails; one that always fails with transient errors is
\* requested as many times as there are attempts and the call fails.
\* ---------------------------------------------------------------------
TextCallReturned == calls.text > 0

TextCallFailed == gen.pc # "none" /\ gen.failedAt = "generateStory"

C12_RetryOutcomes ==
  TextCallReturned =>
     /\ (calls.textOutcomes = <<"transient", "transient", "ok">>) =>
           (~TextCallFailed /\ calls.text = 3)
     /\ (calls.textOutcomes = <<"terminal", "terminal", "terminal">>) =>
           (TextCallFailed /\ calls.text = 1)
     /\ (calls.textOutcomes = <<"transient", "transient", "transient">>) =>
           (TextCallFailed /\ calls.text = Len(calls.textOutcomes))

\* ---------------------------------------------------------------------
\* C13.  A text-generation call whose first request fails with a
\* transient error waits before each further attempt k = 2, 3 for
\* min(baseDelay * 2^(k-1), maxDelay), here with baseDelay 1 and maxDelay 3.
\* ---------------------------------------------------------------------
C13_BackoffWaits ==
  (TextCallReturned /\ calls.textOutcomes[1] = "transient") =>
     LET baseDelay == 1
         maxDelay == 3
         attempts == Len(calls.textOutcomes)
     IN  calls.textWaits =
           [k \in 1..(attempts - 1) |-> MinOf({baseDelay * 2^k, maxDelay})]

\* ---------------------------------------------------------------------
\* C14.  For every text and every limit N, N = 0 included, the result of
\* enforceWordLimit(text, N) has at most N words.
\* ---------------------------------------------------------------------
C14_AtMostNWords ==
  \A i \in 1..Len(limited.outputs) :
     Len(splitWords(limited.outputs[i])) <= limited.maxWords

\* ---------------------------------------------------------------------
\* C15.  enforceWordLimit applied to its own result returns that result,
\* and a text of at most N words is returned as it is.
\* ---------------------------------------------------------------------
C15_Idempotent ==
  /\ (Len(limited.outputs) = 2) => limited.outputs[2] = limited.outputs[1]
  /\ (Len(limited.outputs) >= 1
        /\ Len(splitWords(limited.text)) <= limited.maxWords) =>
          limited.outputs[1] = limited.text

\* a text that is cut, then handed in again
C15_Witness ==
  /\ Len(limited.outputs) = 2
  /\ limited.outputs[1] # limited.text
  /\ limited.maxWords > 0

\* ---------------------------------------------------------------------
\* C16.  isContentSafe flags exactly the denylist terms that occur in the
\* content as substrings, letter case ignored; isSafe holds exactly when
\* none is flagged; severity is safe for no term, medium for one or two,
\* high for more.  'this is a scary dangerous story' is unsafe with
\* severity medium or high, 'a happy story about friendship' is safe.
\* ---------------------------------------------------------------------
OccursIn(content, word) ==
  \E i \in 1..Len(content) :
     /\ i + Len(word) - 1 <= Len(content)
     /\ \A k \in 1..Len(word) : toLowerChar(content[i + k - 1]) = word[k]

C16_SafetyVerdict ==
  \A r \in 1..Len(checked.results) :
     LET verdict == checked.results[r]
         found == {w \in 1..Len(inappropriateWords) :
                     OccursIn(checked.content, inappropriateWords[w])}
         n == Cardinality(found)
     IN  /\ {verdict.flaggedWords[j] : j \in 1..Len(verdict.flaggedWords)}
               = {inappropriateWords[w] : w \in found}
         /\ Len(verdict.flaggedWords) = n
         /\ verdict.isSafe <=> (verdict.flaggedWords = <<>>)
         /\ verdict.severity = (IF n = 0 THEN "safe"
                                ELSE IF n <= 2 THEN "medium" ELSE "high")
         /\ (checked.content = ScaryContent) =>
               (~verdict.isSafe /\ verdict.severity \in {"medium", "high"})
         /\ (checked.content = HappyContent) => verdict.isSafe

\* a content with upper-case terms, more than two of them, has been checked
C16_Witness ==
  /\ Len(checked.results) = 1
  /\ checked.results[1].severity = "high"
  /\ ~includes(checked.content, inappropriateWords[1])
  /\ OccursIn(checked.content, inappropriateWords[1])

\* ---------------------------------------------------------------------
\* C17.  The step of createStory that persists the initial record also
\* answers the request with status generating and starts the run without
\* taking any of its steps; no later step of the run, whether it ends
\* completed or failed, changes that response.
\* ---------------------------------------------------------------------
C17_CreateDoesNotWait ==
  [][/\ (~DocExists /\ DOMAIN story' # {}) =>
          /\ response'.op = "createStory"
          /\ response'.code = 201 /\ response'.body = "generating"
          /\ gen'.pc = "updateProcessing"
          /\ story'.status = "generating"
          /\ calls' = calls
     /\ (response.code = 201) => response' = response]_vars

C17_Witness ==
  /\ response.code = 201 /\ response.body = "generating"
  /\ RunEnded /\ gen.failedAt # "" /\ story.status = "failed"

\* ---------------------------------------------------------------------
\* C18.  A createStory request whose story type the store does not have,
\* or that supplies no drawing, no voice input and no prompt, is answered
\* 400 with 'Invalid story type', respectively 'At least one input method
\* is required ...'; no record exists and no run is started.
\* ---------------------------------------------------------------------
NoSuchStoryType(storyData) == storyData.storyTypeId \notin {adventureType.id}

NoInput(storyData) ==
  /\ ~storyData.drawingImageBase64
  /\ ~storyData.voiceInputBase64
  /\ storyData.userPrompt = ""

C18_InvalidRequests ==
  (response.op = "createStory" /\ response.typeReadOk
     /\ (NoSuchStoryType(response.request) \/ NoInput(response.request))) =>
     /\ response.code = 400
     /\ response.body =
          (IF NoSuchStoryType(response.request) THEN "Invalid story type"
           ELSE "At least one input method is required (drawing, voice, or text prompt)")
     /\ ~DocExists
     /\ gen.pc = "none"
     /\ statusLog = <<>>

C18_Witness ==
  /\ response.op = "createStory" /\ response.typeReadOk
  /\ NoSuchStoryType(response.request)
  /\ response.code = 400

\* ---------------------------------------------------------------------
\* C19.  A failed title call does not fail the run: the run goes on to
\* the narration with the title 'A Magical Adventure Tale' (the template
\* with the name of the story type), and a run that reaches its final
\* update persists completed with that title.
\* ---------------------------------------------------------------------
TemplatedTitle == <<"A", " ", "M", "a", "g", "i", "c", "a", "l", " ", "A", "d", "v", "e", "n", "t", "u", "r", "e", " ", "T", "a", "l", "e">>

TitleCallFailed == "titleFailed" \in DOMAIN gen /\ gen.titleFailed

C19_TitleFallback ==
  /\ (gen.pc # "none") => gen.failedAt # "generateTitle"
  /\ TitleCallFailed =>
        /\ gen.pc \notin {"catch", "rejected", "done"}
        /\ calls.title = 1
        /\ gen.storyTitle = TemplatedTitle
        /\ (gen.pc = "updateUserProgress") =>
              (EverCompleted /\ story.title = TemplatedTitle)

C19_Witness ==
  /\ TitleCallFailed /\ gen.pc = "updateUserProgress"
  /\ story.status = "completed" /\ story.title = TemplatedTitle

\* ---------------------------------------------------------------------
\* C20.  No run ends failed because generating or storing an
\* illustration failed.
\* ---------------------------------------------------------------------
C20_IllustrationFailureDegrades ==
  ~(RunEnded /\ gen.failedAt = "saveIllustration" /\ story.status = "failed")


\* ---------------------------------------------------------------------
\* C21.  The safety check sees the text as the provider returned it: a
\* run whose provider text contains a denylisted term, wherever in the
\* text, does not go on to the title and ends failed.
\* ---------------------------------------------------------------------
ReplyDenylisted == ~isContentSafe(calls.textReply).isSafe

C21_UnsafeReplyFails ==
  (gen.pc # "none" /\ calls.text > 0 /\ ReplyDenylisted) =>
     /\ gen.pc \in {"catch", "rejected", "done"}
     /\ gen.failedAt = "safetyCheck"
     /\ (gen.pc = "done") => (story.status = "failed" \/ ~gen.failureWritten)


\* ---------------------------------------------------------------------
\* C22.  For a text of more than N words, enforceWordLimit joins the
\* first N words by single spaces and looks for the last terminator in
\* them: when its position is at or beyond 70% of the truncated length,
\* the result ends just after that terminator; otherwise it is the
\* truncated text, with a '.' appended exactly when it does not end with
\* a terminator.
\* ---------------------------------------------------------------------
atOrBeyondSeventyPercent(text, maxWords) ==
  LET truncated == joinSpace(SubSeq(splitWords(text), 1, maxWords))
      position == MaxOf({lastIndexOf(truncated, c) : c \in Terminators})
  IN  IF position * 10 >= Len(truncated) * 7
        THEN SubSeq(truncated, 1, position + 1)
      ELSE IF truncated # <<>> /\ truncated[Len(truncated)] \in Terminators
        THEN truncated
      ELSE truncated \o <<".">>

C22_CutAtSeventyPercent ==
  (limited.outputs # <<>> /\ Len(splitWords(limited.text)) > limited.maxWords) =>
     limited.outputs[1] = atOrBeyondSeventyPercent(limited.text, limited.maxWords)


\* ---------------------------------------------------------------------
\* C23.  The runs on the story that have work or writes outstanding: the
\* initial generation from createStory to the end of its failure handling,
\* a continuation from the moment continueStory admits it to its last
\* write.  As stated: at no time are two of them active.  What the status
\* check does exclude: a continuation is admitted only after the initial
\* run has made its final update, so the only step of the initial run a
\* continuation can overlap is the user-progress update and the failure
\* handling that follows it.
\* ---------------------------------------------------------------------
InitialRunActive == gen.pc \notin {"none", "done"}

ContinuationActive(s) ==
  conts[s].pc \in {"updateGenerating", "generate", "updateStory", "rejected"}

Admitted(s) == conts[s].pc \notin {"free", "refused"}

FinalUpdateMade ==
  \/ gen.pc = "updateUserProgress"
  \/ gen.pc \in {"catch", "rejected", "done"} /\ gen.failedAt = "updateUserProgress"
  \/ gen.pc = "done" /\ gen.failedAt = ""

C23_AsStated ==
  /\ \A s \in Slots : ContinuationActive(s) => ~InitialRunActive
  /\ \A r, s \in Slots : (ContinuationActive(r) /\ ContinuationActive(s)) => r = s

C23_AdmittedAfterFinalUpdate ==
  \A s \in Slots : Admitted(s) => FinalUpdateMade

C23_Witness ==
  /\ gen.pc = "updateUserProgress"
  /\ conts[1].pc = "updateStory"
  /\ conts[2].pc = "generate"


\* ---------------------------------------------------------------------
\* C24.  No write changes the status of the story from completed to
\* failed: after the final update of the initial run has persisted
\* completed, a failure of the user-progress update does not overwrite
\* the status.
\* ---------------------------------------------------------------------
C24_CompletedNeverFails ==
  [][(DocExists /\ story.status = "completed") => story'.status # "failed"]_vars


\* ---------------------------------------------------------------------
\* C25.  The update of a successful continuation keeps the character
\* names: afterwards characterNames is the list the story had before,
\* followed by the newCharacters of the request.
\* ---------------------------------------------------------------------
ContinuationWritten(s) == conts[s].pc = "updateStory" /\ conts'[s].pc = "done"

C25_CharacterNamesKept ==
  [][\A s \in Slots : ContinuationWritten(s) =>
        story'.characterNames = story.characterNames \o conts[s].input.newCharacters]_vars


\* ---------------------------------------------------------------------
\* C26.  No step of a continuation, successful or failed, changes the
\* fields a continuation is not meant to extend: title, userInput,
\* completedAt, the illustration and background-music references in
\* media, and metadata.language and metadata.readingLevel.
\* ---------------------------------------------------------------------
\* the value of a field of a record, <<>> when the record has no such field
Field(rec, field) == IF field \in DOMAIN rec THEN <<rec[field]>> ELSE <<>>

FieldsToKeep(doc) ==
  [title |-> doc.title,
   userInput |-> doc.userInput,
   completedAt |-> Field(doc, "completedAt"),
   illustrationUrls |-> Field(doc.media, "illustrationUrls"),
   backgroundMusicUrl |-> Field(doc.media, "backgroundMusicUrl"),
   language |-> Field(doc.metadata, "language"),
   readingLevel |-> Field(doc.metadata, "readingLevel")]

C26_ContinuationFrame ==
  [][(DocExists /\ conts' # conts) => FieldsToKeep(story') = FieldsToKeep(story)]_vars


\* ---------------------------------------------------------------------
\* C27.  In every state with status = completed, after any number of
\* generation and continuation runs, the content has at most
\* maxStoryWords words.
\* ---------------------------------------------------------------------
\* the number of maximal runs of characters that are not whitespace
WordCount(t) ==
  Cardinality({i \in 1..Len(t) :
                 t[i] \notin WhiteSpace /\ (i = 1 \/ t[i - 1] \in WhiteSpace)})

C27_CompletedWithinCeiling ==
  (DocExists /\ story.status = "completed") => WordCount(story.content) <= maxStoryWords


\* ---------------------------------------------------------------------
\* C28.  A text of the provider of at most maxStoryWords words is not
\* truncated: the content generateStory returns has no fewer words than
\* the text of the provider, whatever the number of expressions in it.
\* ---------------------------------------------------------------------
ContentReturned == "storyContent" \in DOMAIN gen

C28_ShortTextNotTruncated ==
  (ContentReturned /\ WordCount(calls.textReply) <= maxStoryWords) =>
     WordCount(gen.storyContent) >= WordCount(calls.textReply)


\* ---------------------------------------------------------------------
\* C29.  A failure of the vision-analysis provider or of the
\* speech-transcription provider does not fail the run: the step writes
\* nothing to the story, the run goes on to store the drawing with the
\* fallback description (the voice input with an empty transcription),
\* and the final update of such a run persists completed with that
\* description and transcription.
\* ---------------------------------------------------------------------
VisionFailed == "visionFailed" \in DOMAIN gen /\ gen.visionFailed

SpeechFailed == "speechFailed" \in DOMAIN gen /\ gen.speechFailed

C29_InputProviderFailureAbsorbed ==
  [][/\ (gen.pc = "analyzeDrawing" /\ gen' # gen) =>
          /\ gen'.pc = "saveDrawing"
          /\ story' = story
          /\ gen'.visionFailed => gen'.drawingAnalysis = drawingFallback
     /\ (gen.pc = "transcribeVoice" /\ gen' # gen) =>
          /\ gen'.pc = "saveVoiceInput"
          /\ story' = story
          /\ gen'.speechFailed => gen'.voiceTranscription = ""
     /\ (gen.pc = "finalUpdate" /\ gen'.pc = "updateUserProgress") =>
          /\ story'.status = "completed"
          /\ VisionFailed =>
                story'.metadata.aiGenerationData.drawingAnalysis = drawingFallback
          /\ SpeechFailed =>
                story'.metadata.aiGenerationData.voiceTranscription = ""]_vars

C29_Witness ==
  /\ gen.pc = "updateUserProgress"
  /\ VisionFailed /\ SpeechFailed
  /\ story.status = "completed"
  /\ story.metadata.aiGenerationData.drawingAnalysis = drawingFallback


\* ---------------------------------------------------------------------
\* C30.  A story deleted by deleteStory stays deleted: in every state
\* after the delete, whatever the runs that were in flight and their
\* failure handlers do, the document does not exist and getStoryById
\* returns null.
\* ---------------------------------------------------------------------
Deleted == deletion.pc = "deleted"

C30_DeletedStaysDeleted == Deleted => (~DocExists /\ getStoryById(story) = Null)

\* deleted while runs were in flight, all of which have ended since: the
\* initial run after its user-progress update failed, a continuation after
\* its update was refused, with no failure update accepted
C30_Witness ==
  /\ Deleted /\ deletion.inFlight
  /\ ~RunInFlight
  /\ gen.pc = "done" /\ gen.failedAt = "updateUserProgress"
  /\ ~gen.failureWritten
  /\ \E s \in Slots : conts[s].pc = "lost"

====
